---- MODULE Spec2Model ----
(***************************************************************************)
(* A model of the pyco lexer (pyco/parser/lexer.py, pyco/parser/errors.py). *)
(*                                                                         *)
(* A source text is a sequence of one-character strings.  Offsets are the  *)
(* 0-based offsets of the Python code, so the character at offset p is     *)
(* code[p + 1].  A Python str built by the lexer (a dictionary key, the    *)
(* text of a regular-expression match) is a TLA+ string.                   *)
(***************************************************************************)
EXTENDS Integers, Sequences, FiniteSets, TLC

VARIABLES code, file, pos, line, start, ret, proc, ntok

vars == <<code, file, pos, line, start, ret, proc, ntok>>

(***************************************************************************)
(* Bounds of the checked inputs.                                           *)
(***************************************************************************)
MaxLen == 4

\* The longest source of the specification that varies the order of the tests.
MaxDispatchLen == 3

\* The longest source of the specification with fairness.
MaxFairLen == 3

Alphabet == {"<", "=", ".", "!", "1", "a", " ", "\n", "'", "\"", "\\", "#"}

Files == {"a.pyco", "b.pyco"}

\* Sources the documentation names, and the 3-character operators.
Examples ==
    { <<"<", "<", "=">>, <<">", ">", "=">>, <<"*", "*", "=">>, <<"/", "/", "=">>,
      <<"<", "<">>, <<"<", " ", "<">>, <<".", ".", ".">>,
      <<"1", "2", "3">>, <<"1", "2", ".", "5">>, <<"1", "2", ".">>,
      <<"'", "i", "t", "\\", "'", "s", "'">>,
      <<"\n", "\n", "x">>, <<"_", "a", "1", " ", "b">>,
      <<"'", "\n", "'", "\n", "a">>, <<"1", ".", "5", ".", "2">> }

Sources == UNION {[1..n -> Alphabet] : n \in 0..MaxLen} \cup Examples

(***************************************************************************)
(* TokenType and the symbol table.                                         *)
(***************************************************************************)
SYMBOLS ==
    ("(" :> "LPAR") @@ (")" :> "RPAR") @@ ("[" :> "LSQB") @@ ("]" :> "RSQB") @@
    (":" :> "COLON") @@ ("," :> "COMMA") @@ (";" :> "SEMI") @@ ("+" :> "PLUS") @@
    ("-" :> "MINUS") @@ ("*" :> "STAR") @@ ("/" :> "SLASH") @@ ("|" :> "VBAR") @@
    ("&" :> "AMPER") @@ ("<" :> "LESS") @@ (">" :> "GREATER") @@ ("=" :> "EQUAL") @@
    ("." :> "DOT") @@ ("%" :> "PERCENT") @@ ("{" :> "LBRACE") @@ ("}" :> "RBRACE") @@
    ("==" :> "EQEQUAL") @@ ("!=" :> "NOTEQUAL") @@ ("<=" :> "LESSEQUAL") @@
    (">=" :> "GREATEREQUAL") @@ ("~" :> "TILDE") @@ ("^" :> "CIRCUMFLEX") @@
    ("<<" :> "LEFTSHIFT") @@ (">>" :> "RIGHTSHIFT") @@ ("**" :> "DOUBLESTAR") @@
    ("+=" :> "PLUSEQUAL") @@ ("-=" :> "MINEQUAL") @@ ("*=" :> "STAREQUAL") @@
    ("/=" :> "SLASHEQUAL") @@ ("%=" :> "PERCENTEQUAL") @@ ("&=" :> "AMPEREQUAL") @@
    ("|=" :> "VBAREQUAL") @@ ("^=" :> "CIRCUMFLEXEQUAL") @@
    ("<<=" :> "LEFTSHIFTEQUAL") @@ (">>=" :> "RIGHTSHIFTEQUAL") @@
    ("**=" :> "DOUBLESTAREQUAL") @@ ("//" :> "DOUBLESLASH") @@
    ("//=" :> "DOUBLESLASHEQUAL") @@ ("@" :> "AT") @@ ("@=" :> "ATEQUAL") @@
    ("..." :> "ELLIPSIS") @@ (":=" :> "COLONEQUAL") @@ ("\"" :> "QUOTEQUOTE") @@
    ("'" :> "QUOTE") @@ ("\\" :> "BACKSLASH")

TokenType == {"IDENTIFIER", "NUMBER", "STRING"} \cup {SYMBOLS[k] : k \in DOMAIN SYMBOLS}

\* SYM with the underscore added to it.
SYM_WithUnderscore ==
    {"(", ")", "[", "]", ":", ",", ";", "+", "-", "*", "/", "|", "&", "<", ">",
     "=", ".", "%", "{", "}", "!", "~", "^", "@", "'", "\"", "_"}

SYM == {"(", ")", "[", "]", ":", ",", ";", "+", "-", "*", "/", "|", "&", "<", ">",
        "=", ".", "%", "{", "}", "!", "~", "^", "@", "'", "\""}

NUM == {"0", "1", "2", "3", "4", "5", "6", "7", "8", "9"}

IDENT == {"a", "b", "c", "d", "e", "f", "g", "h", "i", "j", "k", "l", "m", "n", "o",
          "p", "q", "r", "s", "t", "u", "v", "w", "x", "y", "z",
          "A", "B", "C", "D", "E", "F", "G", "H", "I", "J", "K", "L", "M", "N", "O",
          "P", "Q", "R", "S", "T", "U", "V", "W", "X", "Y", "Z", "_"}

\* str.isspace() on one character (the ASCII whitespace characters).
isspace(c) == c \in {" ", "\t", "\n", "\r", "\f"}

(***************************************************************************)
(* Python values.                                                          *)
(***************************************************************************)
\* None where a character is expected (falsy, and no character is "").
NoChar == ""

\* Optional[str]: None is the empty tuple, a str s is <<s>>.
None == << >>

Some(s) == <<s>>

\* re.Match is modelled by its end(); no match (None) is -1.
NoMatch == 0 - 1

\* The str made of the characters of s.
RECURSIVE Join(_)
Join(s) == IF s = << >> THEN "" ELSE Head(s) \o Join(Tail(s))

\* code[p:]
Slice(c, p) == SubSeq(c, p + 1, Len(c))

(***************************************************************************)
(* The three anchored patterns, matched as a backtracking matcher does:    *)
(* alternatives in order, repetitions greedy, giving back on failure.      *)
(***************************************************************************)
Letters == IDENT

\* The end of the longest run of characters of class cls starting at offset i.
RECURSIVE RunEnd(_, _, _)
RunEnd(s, i, cls) ==
    IF i < Len(s) /\ s[i + 1] \in cls THEN RunEnd(s, i + 1, cls) ELSE i

\* IDENT_RE with the digits left out of the second class: ^[a-zA-Z_][a-zA-Z_]*
IDENT_RE_NoDigits(s) ==
    IF Len(s) >= 1 /\ s[1] \in Letters
    THEN RunEnd(s, 1, Letters)
    ELSE NoMatch

\* ^[a-zA-Z_][a-zA-Z0-9_]*
IDENT_RE(s) ==
    IF Len(s) >= 1 /\ s[1] \in Letters
    THEN RunEnd(s, 1, Letters \cup NUM)
    ELSE NoMatch

\* NUM_RE with an optional fraction part: ^[0-9]+(\.[0-9]*)?
NUM_RE_TrailingDot(s) ==
    LET d == RunEnd(s, 0, NUM)
    IN  IF d = 0 THEN NoMatch
        ELSE IF d < Len(s) /\ s[d + 1] = "." THEN RunEnd(s, d + 1, NUM)
        ELSE d

\* ^[0-9]+(\.[0-9]+)?
NUM_RE(s) ==
    LET d == RunEnd(s, 0, NUM)
        f == RunEnd(s, d + 1, NUM)
    IN  IF d = 0 THEN NoMatch
        ELSE IF d < Len(s) /\ s[d + 1] = "." /\ f > d + 1 THEN f
        ELSE d

\* q([^q]|\\q)*q from offset i, the opening quote being consumed: the first
\* alternative, then the second, then the closing quote.
RECURSIVE StrBody(_, _, _)
StrBody(s, i, q) ==
    LET a1 == IF i < Len(s) /\ s[i + 1] # q THEN StrBody(s, i + 1, q) ELSE NoMatch
        a2 == IF i + 1 < Len(s) /\ s[i + 1] = "\\" /\ s[i + 2] = q
              THEN StrBody(s, i + 2, q) ELSE NoMatch
    IN  IF a1 # NoMatch THEN a1
        ELSE IF a2 # NoMatch THEN a2
        ELSE IF i < Len(s) /\ s[i + 1] = q THEN i + 1
        ELSE NoMatch

STR_DQ_RE(s) == IF Len(s) >= 1 /\ s[1] = "\"" THEN StrBody(s, 1, "\"") ELSE NoMatch

STR_SQ_RE(s) == IF Len(s) >= 1 /\ s[1] = "'" THEN StrBody(s, 1, "'") ELSE NoMatch

\* ^(STR_DQ_RE|STR_SQ_RE)
STR_RE(s) == IF STR_DQ_RE(s) # NoMatch THEN STR_DQ_RE(s) ELSE STR_SQ_RE(s)

(***************************************************************************)
(* Token, and the outcome of a scanner method: the token returned or the   *)
(* exception raised, and the offset the method leaves.                     *)
(***************************************************************************)
Token(p, f, t, v) == [pos |-> p, filename |-> f, type |-> t, value |-> v]

\* Stands in the token field of an outcome that returns no token.
NoToken == Token(0, "", "", None)

Returned(p, tok) == [exc |-> "", pos |-> p, tok |-> tok]

Raised(e, p) == [exc |-> e, pos |-> p, tok |-> NoToken]

\* SymbolToken storing the text of the symbol as the token's value.
SymbolToken_WithValue(key, p, l, f) ==
    IF key \in DOMAIN SYMBOLS
    THEN Returned(p, Token(l, f, SYMBOLS[key], Some(key)))
    ELSE Raised("KeyError", p)

\* Token(line, file, SYMBOLS[key]) with the offset already moved to p; the
\* subscript raises KeyError for a key the table lacks.
SymbolToken(key, p, l, f) ==
    IF key \in DOMAIN SYMBOLS
    THEN Returned(p, Token(l, f, SYMBOLS[key], None))
    ELSE Raised("KeyError", p)

\* Lexer.char, for an offset inside the source.
Lexer_char(c, p) == c[p + 1]

Lexer_nchar(c, p, inc) ==
    IF p + inc >= Len(c) THEN NoChar ELSE c[p + 1 + 1]

\* _process_string taking the rest of the source when no closing quote is found.
Lexer_process_string_ToEnd(c, p, l, f) ==
    LET value == STR_RE(Slice(c, p))
    IN  IF value = NoMatch
        THEN Returned(Len(c), Token(l, f, "STRING", Some(Join(Slice(c, p)))))
        ELSE Returned(p + value,
                      Token(l, f, "STRING", Some(Join(SubSeq(Slice(c, p), 1, value)))))

Lexer_process_string(c, p, l, f) ==
    LET value == STR_RE(Slice(c, p))
    IN  IF value = NoMatch THEN Raised("AssertionError", p)
        ELSE Returned(p + value,
                      Token(l, f, "STRING", Some(Join(SubSeq(Slice(c, p), 1, value)))))

\* _process_symbol without the hand-over of quotes to _process_string.
Lexer_process_symbol_NoQuoteTest(c, p, l, f) ==
    LET char  == Lexer_char(c, p)
        nchar == Lexer_nchar(c, p, 1)
        nchar2 == Lexer_nchar(c, p, 2)
        token == char \o nchar \o nchar2
    IN  IF nchar = NoChar THEN SymbolToken(char, p + 1, l, f)
        ELSE IF char \o nchar \in DOMAIN SYMBOLS
        THEN IF nchar2 = NoChar THEN SymbolToken(char, p + 2, l, f)
             ELSE IF token \notin DOMAIN SYMBOLS
                  THEN SymbolToken(char \o nchar, p + 2, l, f)
                  ELSE SymbolToken(token, p + 3, l, f)
        ELSE SymbolToken(char, p + 1, l, f)

Lexer_process_symbol(c, p, l, f) ==
    IF Lexer_char(c, p) \in {"\"", "'"} THEN Lexer_process_string(c, p, l, f)
    ELSE
    LET char  == Lexer_char(c, p)
        nchar == Lexer_nchar(c, p, 1)
        nchar2 == Lexer_nchar(c, p, 2)
        token == char \o nchar \o nchar2
    IN  IF nchar = NoChar THEN SymbolToken(char, p + 1, l, f)
        ELSE IF char \o nchar \in DOMAIN SYMBOLS
        THEN IF nchar2 = NoChar THEN SymbolToken(char, p + 2, l, f)
             ELSE IF token \notin DOMAIN SYMBOLS
                  THEN SymbolToken(char \o nchar, p + 2, l, f)
                  ELSE SymbolToken(token, p + 3, l, f)
        ELSE SymbolToken(char, p + 1, l, f)

\* _process_number without self._pos += value.end().
Lexer_process_number_NoAdvance(c, p, l, f) ==
    LET value == NUM_RE(Slice(c, p))
    IN  IF value = NoMatch THEN Raised("AssertionError", p)
        ELSE Returned(p,
                      Token(l, f, "NUMBER", Some(Join(SubSeq(Slice(c, p), 1, value)))))

Lexer_process_number(c, p, l, f) ==
    LET value == NUM_RE(Slice(c, p))
    IN  IF value = NoMatch THEN Raised("AssertionError", p)
        ELSE Returned(p + value,
                      Token(l, f, "NUMBER", Some(Join(SubSeq(Slice(c, p), 1, value)))))

\* _process_ident without self._pos += value.end().
Lexer_process_ident_NoAdvance(c, p, l, f) ==
    LET value == IDENT_RE(Slice(c, p))
    IN  IF value = NoMatch THEN Raised("AssertionError", p)
        ELSE Returned(p,
                      Token(l, f, "IDENTIFIER", Some(Join(SubSeq(Slice(c, p), 1, value)))))

Lexer_process_ident(c, p, l, f) ==
    LET value == IDENT_RE(Slice(c, p))
    IN  IF value = NoMatch THEN Raised("AssertionError", p)
        ELSE Returned(p + value,
                      Token(l, f, "IDENTIFIER", Some(Join(SubSeq(Slice(c, p), 1, value)))))

(***************************************************************************)
(* errors.error: three lines on standard output, then exit(1).             *)
(***************************************************************************)
error(f, l, type, detail) ==
    [stdout |-> << "An error occurred while parsing: " \o type,
                   "Location: " \o f \o ":" \o ToString(l),
                   detail >>,
     exit |-> <<1>>]

\* The process while it runs: nothing printed, no exit status.
Running == [stdout |-> << >>, exit |-> << >>]

(***************************************************************************)
(* Lexer.next: one call, the calls it makes of itself on whitespace        *)
(* included.  branch names the return statement reached; start is the      *)
(* offset of the character the call dispatched on.                         *)
(***************************************************************************)
Outcome(branch, r, l, s, pr) ==
    [branch |-> branch, exc |-> r.exc, pos |-> r.pos, line |-> l, start |-> s,
     tok |-> r.tok, proc |-> pr]

\* LineAfter counting every whitespace character as a line.
LineAfter_AnySpace(ch, l) == l + 1

\* LineAfter never counting.
LineAfter_Never(ch, l) == l

\* The line counter after one whitespace character ch is consumed.
LineAfter(ch, l) == IF ch = "\n" THEN l + 1 ELSE l

\* Unexpected reporting 1-based lines.
Unexpected_OneBased(c, p, l, f) ==
    error(f, l + 1, "UnexpectedCharacter",
          "Not expecting to find character: " \o Lexer_char(c, p))

\* The call of error() that ends next().
Unexpected(c, p, l, f) ==
    error(f, l, "UnexpectedCharacter",
          "Not expecting to find character: " \o Lexer_char(c, p))

\* next() moving the offset once more when it finds the end of the source.
RECURSIVE Lexer_next_EndAdvances(_, _, _, _)
Lexer_next_EndAdvances(c, p, l, f) ==
    IF p >= Len(c) THEN Outcome("end", Returned(p + 1, NoToken), l, p, Running)
    ELSE IF isspace(Lexer_char(c, p))
    THEN Lexer_next_EndAdvances(c, p + 1, LineAfter(Lexer_char(c, p), l), f)
    ELSE IF Lexer_char(c, p) \in SYM
    THEN Outcome("symbol", Lexer_process_symbol(c, p, l, f), l, p, Running)
    ELSE IF Lexer_char(c, p) \in NUM
    THEN Outcome("number", Lexer_process_number(c, p, l, f), l, p, Running)
    ELSE IF Lexer_char(c, p) \in IDENT
    THEN Outcome("ident", Lexer_process_ident(c, p, l, f), l, p, Running)
    ELSE Outcome("error", Returned(p, NoToken), l, p, Unexpected(c, p, l, f))

RECURSIVE Lexer_next(_, _, _, _)
Lexer_next(c, p, l, f) ==
    IF p >= Len(c) THEN Outcome("end", Returned(p, NoToken), l, p, Running)
    ELSE IF isspace(Lexer_char(c, p))
    THEN Lexer_next(c, p + 1, LineAfter(Lexer_char(c, p), l), f)
    ELSE IF Lexer_char(c, p) \in SYM
    THEN Outcome("symbol", Lexer_process_symbol(c, p, l, f), l, p, Running)
    ELSE IF Lexer_char(c, p) \in NUM
    THEN Outcome("number", Lexer_process_number(c, p, l, f), l, p, Running)
    ELSE IF Lexer_char(c, p) \in IDENT
    THEN Outcome("ident", Lexer_process_ident(c, p, l, f), l, p, Running)
    ELSE Outcome("error", Returned(p, NoToken), l, p, Unexpected(c, p, l, f))

(***************************************************************************)
(* The state: the Lexer's fields (code, file, pos, line), the outcome of   *)
(* the last call of next() (ret, start) and the process (proc).  The       *)
(* field _tokens is set to [] by __init__ and never read or written again. *)
(* ntok counts the calls that have returned a token; it stops counting     *)
(* one past the length of the source.                                      *)
(***************************************************************************)
\* ret.kind: "none" before the first call, "token", "end" (next() returned
\* None), "exit" (the process exited) or the name of the exception raised.
NoCall == [kind |-> "none", tok |-> NoToken]

Kind(o) ==
    IF o.branch = "end" THEN "end"
    ELSE IF o.branch = "error" THEN "exit"
    ELSE IF o.exc # "" THEN o.exc
    ELSE "token"

Init ==
    /\ code \in Sources
    /\ file \in Files
    /\ pos = 0
    /\ line = 0
    /\ start = 0
    /\ ret = NoCall
    /\ proc = Running
    /\ ntok = 0

\* A caller can call next(): the process has not exited and no exception of
\* an earlier call has ended the run.
Callable == ret.kind \in {"none", "token", "end"}

\* Return counting the newline characters of the text consumed as lines.
Return_CountsLexemeLines(o) ==
    /\ pos' = o.pos
    /\ line' = o.line
                + Cardinality({i \in (o.start + 1)..o.pos : i <= Len(code) /\ code[i] = "\n"})
    /\ start' = o.start
    /\ ret' = [kind |-> Kind(o), tok |-> o.tok]
    /\ proc' = o.proc
    /\ ntok' = IF Kind(o) = "token" /\ ntok <= Len(code) THEN ntok + 1 ELSE ntok
    /\ UNCHANGED <<code, file>>

\* The call's effects on the lexer, on what the caller receives and on the process.
Return(o) ==
    /\ pos' = o.pos
    /\ line' = o.line
    /\ start' = o.start
    /\ ret' = [kind |-> Kind(o), tok |-> o.tok]
    /\ proc' = o.proc
    /\ ntok' = IF Kind(o) = "token" /\ ntok <= Len(code) THEN ntok + 1 ELSE ntok
    /\ UNCHANGED <<code, file>>

\* next() at the end of the source (after any whitespace): returns None.
NextEnd ==
    /\ Callable
    /\ Lexer_next(code, pos, line, file).branch = "end"
    /\ Return(Lexer_next(code, pos, line, file))

\* next() reaching a character of SYM: _process_symbol.
NextSymbol ==
    /\ Callable
    /\ Lexer_next(code, pos, line, file).branch = "symbol"
    /\ Return(Lexer_next(code, pos, line, file))

\* next() reaching a digit: _process_number.
NextNumber ==
    /\ Callable
    /\ Lexer_next(code, pos, line, file).branch = "number"
    /\ Return(Lexer_next(code, pos, line, file))

\* next() reaching a letter or underscore: _process_ident.
NextIdent ==
    /\ Callable
    /\ Lexer_next(code, pos, line, file).branch = "ident"
    /\ Return(Lexer_next(code, pos, line, file))

\* next() reaching any other character: error().
NextError ==
    /\ Callable
    /\ Lexer_next(code, pos, line, file).branch = "error"
    /\ Return(Lexer_next(code, pos, line, file))

Next == NextEnd \/ NextSymbol \/ NextNumber \/ NextIdent \/ NextError

Spec == Init /\ [][Next]_vars

\* The same lexer on the sources of at most MaxDispatchLen characters.
InitDispatch == Init /\ Len(code) <= MaxDispatchLen

SpecDispatch == InitDispatch /\ [][Next]_vars

\* The caller asks for the next token until the run ends: a call that would
\* change the state is eventually made.  One file label and the sources of
\* at most MaxFairLen characters.
InitFair == Init /\ Len(code) <= MaxFairLen /\ file = "a.pyco"

FairSpec == InitFair /\ [][Next]_vars /\ WF_vars(Next)

(***************************************************************************)
(* Properties.  In a state reached by a call of next(), start is the       *)
(* offset the call dispatched on and pos the offset it left.               *)
(***************************************************************************)
Called == ret.kind # "none"

\* The n characters of the source from the dispatch offset, as a table key.
Key(n) == Join(SubSeq(code, start + 1, start + n))

\* The table has an entry for the n characters at the dispatch offset.
Entry(n) == start + n <= Len(code) /\ Key(n) \in DOMAIN SYMBOLS

LongestEntry == CHOOSE n \in 1..3 : Entry(n) /\ \A m \in 1..3 : Entry(m) => m <= n

\* The call dispatched to the symbol matcher on a character that is no quote.
AtSymbol == Called /\ start < Len(code) /\ code[start + 1] \in SYM \ {"'", "\""}

LiteralTypes == {"IDENTIFIER", "NUMBER", "STRING"}

\* The length of the table text that maps to the punctuation/operator type t.
SymbolLen(t) == CHOOSE n \in 1..3 : \E k \in DOMAIN SYMBOLS : SYMBOLS[k] = t /\ Len(k) = n

\* C1: when the three characters at the cursor are "<<=", ">>=", "**=" or
\* "//=", the call returns one token of that 3-character type and moves the
\* offset by 3.
C1_ThreeCharOperator ==
    (Called /\ start + 3 <= Len(code) /\ Key(3) \in {"<<=", ">>=", "**=", "//="})
        => /\ ret.kind = "token"
           /\ ret.tok.type = SYMBOLS[Key(3)]
           /\ pos = start + 3

\* C2: when the cursor is at the last two characters of the source and they
\* are a 2-character table entry, the call returns a token of that type.
C2_TwoCharAtEnd ==
    (Called /\ start + 2 = Len(code) /\ Key(2) \in DOMAIN SYMBOLS)
        => /\ ret.kind = "token"
           /\ ret.tok.type = SYMBOLS[Key(2)]

\* C3: the source 'it\'s' is scanned by the first call as one STRING token
\* whose value is the whole 7-character text, leaving the offset at the end.
C3_EscapedQuote ==
    (Called /\ code = <<"'", "i", "t", "\\", "'", "s", "'">> /\ start = 0)
        => /\ ret.kind = "token"
           /\ ret.tok.type = "STRING"
           /\ ret.tok.value = Some("'it\\'s'")
           /\ pos = 7

\* C4: a call that dispatches to the symbol matcher at a non-quote character
\* returns the type of the longest table entry (1 to 3 characters) that is a
\* prefix of the remaining source.
C4_LongestMatch ==
    (AtSymbol /\ \E n \in 1..3 : Entry(n))
        => /\ ret.kind = "token"
           /\ ret.tok.type = SYMBOLS[Key(LongestEntry)]

\* C5: for every punctuation/operator token returned, the offset has moved
\* from the dispatch offset by the length of the table text of its type.
C5_AdvanceIsSymbolLength ==
    (ret.kind = "token" /\ ret.tok.type \notin LiteralTypes)
        => pos - start = SymbolLen(ret.tok.type)

\* The number of newline characters of s.
NewlinesIn(s) == Cardinality({i \in 1..Len(s) : s[i] = "\n"})

\* s is digits+ optionally followed by '.' digits+.
IsNumberText(s) ==
    \E k \in 1..Len(s) :
        /\ \A i \in 1..k : s[i] \in NUM
        /\ \/ k = Len(s)
           \/ /\ k + 2 <= Len(s)
              /\ s[k + 1] = "."
              /\ \A i \in (k + 2)..Len(s) : s[i] \in NUM

\* The text of the source from the dispatch offset to the offset left.
Lexeme == SubSeq(code, start + 1, pos)

AtDigit == Called /\ start < Len(code) /\ code[start + 1] \in NUM

\* C6: a call that dispatches on a digit returns one NUMBER token whose value
\* is the longest prefix of the remaining source of the form digits+ or
\* digits+ '.' digits+, and moves the offset by its length; "12." gives
\* NUMBER "12" then DOT, "12.5" gives NUMBER "12.5".
C6_Number ==
    /\ AtDigit =>
        /\ ret.kind = "token"
        /\ ret.tok.type = "NUMBER"
        /\ pos > start
        /\ ret.tok.value = Some(Join(Lexeme))
        /\ IsNumberText(Lexeme)
        /\ \A e \in (pos + 1)..Len(code) : ~IsNumberText(SubSeq(code, start + 1, e))
    /\ (Called /\ code = <<"1", "2", ".">> /\ start = 0) =>
        (ret.tok.value = Some("12") /\ pos = 2)
    /\ (Called /\ code = <<"1", "2", ".">> /\ start = 2) =>
        (ret.kind = "token" /\ ret.tok.type = "DOT" /\ pos = 3)
    /\ (Called /\ code = <<"1", "2", ".", "5">> /\ start = 0) =>
        (ret.tok.value = Some("12.5") /\ pos = 4)

\* C6 happens: "12." has given NUMBER "12" and the '.' is left at the cursor.
C6_Witness ==
    /\ code = <<"1", "2", ".">>
    /\ ret.kind = "token"
    /\ ret.tok.type = "NUMBER"
    /\ ret.tok.value = Some("12")
    /\ pos = 2

IdentChars == IDENT \cup NUM

AtIdent == Called /\ start < Len(code) /\ code[start + 1] \in IDENT

\* C7: a call that dispatches on a letter or underscore returns one
\* IDENTIFIER token whose value is the whole maximal run of letters, digits
\* and underscores from the cursor, and leaves the offset right after the run.
C7_Identifier ==
    AtIdent =>
        /\ ret.kind = "token"
        /\ ret.tok.type = "IDENTIFIER"
        /\ pos > start
        /\ ret.tok.value = Some(Join(Lexeme))
        /\ \A i \in (start + 1)..pos : code[i] \in IdentChars
        /\ pos < Len(code) => code[pos + 1] \notin IdentChars

\* C7 happens: "_a1 b" has given IDENTIFIER "_a1", and a second token follows.
C7_Witness ==
    /\ code = <<"_", "a", "1", " ", "b">>
    /\ ret.kind = "token"
    /\ ret.tok.value = Some("_a1")
    /\ pos = 3

\* C8: the line counter starts at 0; a call adds to it the number of newline
\* characters among the whitespace it consumes before dispatching, and
\* nothing else; a returned token's pos is the line counter, so a token after
\* two whitespace newlines reports line 2.
C8_LineCounter ==
    /\ line = 0
    /\ [][/\ \A i \in (pos + 1)..start' : isspace(code[i])
          /\ line' = line + NewlinesIn(SubSeq(code, pos + 1, start'))]_vars
    /\ [](ret.kind = "token" => ret.tok.pos = line)
    /\ []((ret.kind = "token" /\ code = <<"\n", "\n", "x">>) => ret.tok.pos = 2)

\* C8 happens: a token was returned after two whitespace newlines.
C8_Witness ==
    /\ ret.kind = "token"
    /\ SubSeq(code, 1, start) = <<"\n", "\n">>
    /\ ret.tok.pos = 2
    /\ line = 2

\* The call dispatched on a character of none of the three classes.
AtUnexpected ==
    Called /\ start < Len(code) /\ code[start + 1] \notin (SYM \cup NUM \cup IDENT)

\* C9: a call that reaches, after whitespace, a character that is in none of
\* SYM, NUM and IDENT returns no token: the process prints the
\* UnexpectedCharacter diagnostic with the lexer's file, the line counter and
\* the character, and exits with status 1.
C9_UnexpectedCharacter ==
    AtUnexpected =>
        /\ ret.kind = "exit"
        /\ ret.tok = NoToken
        /\ proc.exit = <<1>>
        /\ proc.stdout = << "An error occurred while parsing: UnexpectedCharacter",
                            "Location: " \o file \o ":" \o ToString(line),
                            "Not expecting to find character: " \o code[start + 1] >>
        /\ pos = start

\* C9 happens: '#' was reached on line 1 of b.pyco.
C9_Witness ==
    /\ ret.kind = "exit"
    /\ file = "b.pyco"
    /\ code[start + 1] = "#"
    /\ line = 1

AllSpace == \A i \in 1..Len(code) : isspace(code[i])

C11_ValueIffLiteral ==
    ret.kind = "token" =>
        /\ ret.tok.type \in TokenType
        /\ (ret.tok.value # None) <=> (ret.tok.type \in LiteralTypes)
        /\ ret.tok.type \in LiteralTypes => ret.tok.value = Some(Join(Lexeme))

\* C11 happens: "1." has given a NUMBER with a value and then a DOT with none.
C11_Witness ==
    /\ ret.kind = "token"
    /\ ret.tok.type = "DOT"
    /\ ret.tok.value = None
    /\ start = 1
    /\ code[1] = "1"

\* C12: the offset never decreases; a call moves it over the whitespace it
\* consumes (one offset per character) and then strictly forward when it
\* returns a token; it never exceeds the length of the source.
C12_OffsetMonotone ==
    /\ [](pos <= Len(code))
    /\ [][/\ pos <= start'
          /\ start' <= pos'
          /\ (pos < Len(code) /\ isspace(code[pos + 1])) => pos < start'
          /\ ret'.kind = "token" => start' < pos'
          /\ pos' <= Len(code)]_vars

\* C12 happens: a token was returned after whitespace, up to the end of the source.
C12_Witness ==
    /\ ret.kind = "token"
    /\ isspace(code[1])
    /\ 0 < start
    /\ start < pos
    /\ pos = Len(code)

\* C13: a call that dispatches to the symbol matcher at a character of SYM
\* other than a quote returns a token: the table lookup never fails.
C13_SymbolLookupSucceeds ==
    AtSymbol => ret.kind = "token"

Quotes == {"'", "\""}

\* C14: no call returns a token of type QUOTE, QUOTEQUOTE or BACKSLASH; a
\* quote at the cursor goes to the string scanner.
C14_NoQuoteToken ==
    /\ ret.kind = "token" => ret.tok.type \notin {"QUOTE", "QUOTEQUOTE", "BACKSLASH"}
    /\ (Called /\ start < Len(code) /\ code[start + 1] \in Quotes) =>
           \/ ret.kind = "token" /\ ret.tok.type = "STRING"
           \/ ret.kind = "AssertionError"

\* C14 happens: a double quote at the cursor has given a STRING token.
C14_Witness ==
    /\ ret.kind = "token"
    /\ ret.tok.type = "STRING"
    /\ code[start + 1] = "\""
    /\ pos = start + 2

\* The character at offset p is a quote that does not occur again after p.
Unterminated(p) ==
    /\ p < Len(code)
    /\ code[p + 1] \in Quotes
    /\ \A i \in (p + 2)..Len(code) : code[i] # code[p + 1]

\* C15: a call made with the cursor at a quote that does not occur again in
\* the rest of the source ends in AssertionError: no token, no diagnostic,
\* no exit, and the offset and the line counter as they were.
C15_UnterminatedString ==
    /\ [][Unterminated(pos) =>
            /\ ret'.kind = "AssertionError"
            /\ ret'.tok = NoToken
            /\ proc' = Running
            /\ pos' = pos
            /\ line' = line]_vars
    /\ []((Called /\ Unterminated(start)) =>
            (ret.kind = "AssertionError" /\ pos = start /\ proc = Running))

\* C15 happens: after a token on line 1, a quote that is never closed raised
\* AssertionError.
C15_Witness ==
    /\ ret.kind = "AssertionError"
    /\ Unterminated(start)
    /\ start > 0
    /\ line = 1
    /\ ntok = 1

\* The four tests of next(), by name, and the orders they can be made in.
Tests == {"space", "sym", "num", "ident"}

Orders == {o \in [1..4 -> Tests] : \A i, j \in 1..4 : o[i] = o[j] => i = j}

Passes(test, ch) ==
    CASE test = "space" -> isspace(ch)
      [] test = "sym"   -> ch \in SYM
      [] test = "num"   -> ch \in NUM
      [] test = "ident" -> ch \in IDENT

\* The first test of the order that the character passes, "error" when none.
RECURSIVE FirstTest(_, _)
FirstTest(order, ch) ==
    IF order = << >> THEN "error"
    ELSE IF Passes(Head(order), ch) THEN Head(order)
    ELSE FirstTest(Tail(order), ch)

\* next() with its four tests made in the given order.
RECURSIVE Lexer_next_Order(_, _, _, _, _)
Lexer_next_Order(order, c, p, l, f) ==
    IF p >= Len(c) THEN Outcome("end", Returned(p, NoToken), l, p, Running)
    ELSE LET t == FirstTest(order, Lexer_char(c, p))
         IN  CASE t = "space" ->
                    Lexer_next_Order(order, c, p + 1, LineAfter(Lexer_char(c, p), l), f)
               [] t = "sym" ->
                    Outcome("symbol", Lexer_process_symbol(c, p, l, f), l, p, Running)
               [] t = "num" ->
                    Outcome("number", Lexer_process_number(c, p, l, f), l, p, Running)
               [] t = "ident" ->
                    Outcome("ident", Lexer_process_ident(c, p, l, f), l, p, Running)
               [] t = "error" ->
                    Outcome("error", Returned(p, NoToken), l, p, Unexpected(c, p, l, f))

\* The characters of the three class strings, of the sources and the
\* whitespace characters.
Chars ==
    SYM \cup NUM \cup IDENT \cup Alphabet \cup {" ", "\t", "\n", "\r", "\f"}
        \cup UNION {{e[i] : i \in 1..Len(e)} : e \in Examples}

\* No character passes more than one of the four tests.
ClassesDisjoint == \A ch \in Chars : Cardinality({t \in Tests : Passes(t, ch)}) <= 1

\* C16: no character passes more than one of the four tests of next(), and
\* next() with its tests in any order gives, from the lexer's state, the
\* outcome next() gives.
C16_DispatchOrder ==
    /\ ClassesDisjoint
    /\ \A order \in Orders :
           Lexer_next_Order(order, code, pos, line, file)
               = Lexer_next(code, pos, line, file)

\* C16 happens: a call has skipped whitespace and dispatched on a letter, and
\* the next call will dispatch on a symbol character.
C16_Witness ==
    /\ ret.kind = "token"
    /\ ret.tok.type = "IDENTIFIER"
    /\ start > 0
    /\ pos < Len(code)
    /\ code[pos + 1] \in SYM

\* The run has ended: end-of-input, the exit of the process or an exception.
Ended == ret.kind \in {"end", "exit", "KeyError", "AssertionError"}

\* C17: calling next() repeatedly eventually reaches end-of-input, the
\* UnexpectedCharacter exit or an internal failure, and no more than
\* len(source) calls return a token.
C17_Terminates ==
    /\ <>Ended
    /\ [](ntok <= Len(code))

\* C17 happens: end-of-input was reached after as many tokens as the source
\* has characters.
C17_Witness ==
    /\ ret.kind = "end"
    /\ Len(code) >= 3
    /\ ntok = Len(code)

\* C18: once a call has returned the end-of-input signal, every later call
\* returns it too and leaves the offset and the line counter as they are.
C18_EndAbsorbing ==
    /\ [][ret.kind = "end" => (ret'.kind = "end" /\ pos' = pos /\ line' = line)]_vars
    /\ [](ret.kind = "end" =>
            /\ Callable
            /\ Kind(Lexer_next(code, pos, line, file)) = "end"
            /\ Lexer_next(code, pos, line, file).pos = pos
            /\ Lexer_next(code, pos, line, file).line = line
            /\ Lexer_next(code, pos, line, file).tok = NoToken)

\* C18 happens: end-of-input was returned after a token and a newline.
C18_Witness ==
    /\ ret.kind = "end"
    /\ pos = Len(code)
    /\ ntok >= 1
    /\ line >= 1

\* The newline characters inside the STRING tokens that the calls made from
\* offset p return before offset upto.
RECURSIVE StringNewlines(_, _)
StringNewlines(p, upto) ==
    LET o == Lexer_next(code, p, 0, file)
    IN  IF p >= upto \/ Kind(o) # "token" \/ o.start >= upto THEN 0
        ELSE (IF o.tok.type = "STRING"
              THEN NewlinesIn(SubSeq(code, o.start + 1, o.pos))
              ELSE 0)
             + StringNewlines(o.pos, upto)

\* C19: the call that returns a STRING token leaves the line counter at the
\* token's line, whatever newline characters the value holds; so the line of
\* every token is the number of newline characters before it in the source
\* less those inside the STRING tokens before it.
C19_StringNewlines ==
    ret.kind = "token" =>
        /\ ret.tok.pos = line
        /\ ret.tok.pos = NewlinesIn(SubSeq(code, 1, start)) - StringNewlines(0, start)
        /\ ret.tok.type = "STRING" =>
               line = NewlinesIn(SubSeq(code, 1, pos)) - StringNewlines(0, pos)

\* C19 happens: in '\n' \n a the identifier follows two newline characters,
\* one of them inside the STRING token, and reports line 1.
C19_Witness ==
    /\ code = <<"'", "\n", "'", "\n", "a">>
    /\ ret.kind = "token"
    /\ ret.tok.type = "IDENTIFIER"
    /\ ret.tok.pos = 1
    /\ StringNewlines(0, start) = 1

====
